---- MODULE Spec2Model ----
(***************************************************************************)
(* Model of @gnome/assert (src/mod.ts): the aggregate `assert` object, the *)
(* flat named exports, and the @std/assert delegates they are bound to.    *)
(* A state is the aggregate's name-to-delegate table together with the     *)
(* assertion call in progress (or the last one finished) and its outcome.  *)
(***************************************************************************)
EXTENDS Integers, Sequences, FiniteSets, TLC

VARIABLES
    assert,     \* the exported aggregate object: short name -> delegate
    call,       \* the call in progress or last finished: surface, name, arguments
    calls,      \* how many times the supplied function was invoked in this call
    promise,    \* state of the deferred result returned by fn (rejects only)
    pc,         \* "idle" | "await" (rejects suspended at its await) | "done"
    outcome     \* outcome of the call: None, a return or a throw

vars == <<assert, call, calls, promise, pc, outcome>>

----------------------------------------------------------------------------
(* Bounds of the model *)

\* numbers passed as arguments are 0 .. MaxNum (plus NaN and -0)
MaxNum == 2
\* strings are words over Alphabet of at most MaxStrLen characters
MaxStrLen == 2
\* distinct object identities (references) available to the caller
MaxRef == 2
\* members of the aggregate that calling code reassigns in one run
MaxAssign == 1

Alphabet == {"a", "b"}

----------------------------------------------------------------------------
(* JavaScript values.  Every value is a record with the same fields:       *)
(*   t   : the typeof tag                                                  *)
(*   n   : numeric payload (number value, boolean as 0/1, or the value of  *)
(*         property `a` of a plain object {a: n})                          *)
(*   s   : string payload (string value, or an error's message)            *)
(*   ref : object identity (0 for primitives)                              *)
(*   cls : constructor name of an object / the class a function value is;  *)
(*         "NaN" and "-0" mark the two special numbers                     *)

Val(t, n, s, ref, cls) == [t |-> t, n |-> n, s |-> s, ref |-> ref, cls |-> cls]

Undefined == Val("undefined", 0, <<>>, 0, "")
Null == Val("null", 0, <<>>, 0, "")
Bool(b) == Val("boolean", IF b THEN 1 ELSE 0, <<>>, 0, "")
Num(n) == Val("number", n, <<>>, 0, "")
NaN == Val("number", 0, <<>>, 0, "NaN")
NegZero == Val("number", 0, <<>>, 0, "-0")
Str(s) == Val("string", 0, s, 0, "")
\* the plain object {a: n} with identity ref
Obj(ref, n) == Val("object", n, <<>>, ref, "Object")
\* new cls(message) with identity ref
Err(ref, cls, message) == Val("object", 0, message, ref, cls)
\* a constructor passed as a value: Error, TypeError, String, ...
Class(cls) == Val("function", 0, <<>>, 0, cls)

Strings == UNION {[1..k -> Alphabet] : k \in 0..MaxStrLen}
Numbers == {Num(n) : n \in 0..MaxNum} \cup {NaN, NegZero}
Primitives == {Undefined, Null, Bool(TRUE), Bool(FALSE)} \cup Numbers
                \cup {Str(s) : s \in {<<>>, <<"a">>}}
PlainObjects == {Obj(r, n) : r \in 1..MaxRef, n \in 1..2}
ErrorClasses == {"Error", "TypeError"}
Errors == {Err(1, c, m) : c \in ErrorClasses, m \in {<<"a">>, <<"b">>}}
Values == Primitives \cup PlainObjects

\* A heap is consistent when one identity does not denote two objects.
SameHeap(a, b) == (a.t = "object" /\ b.t = "object" /\ a.ref = b.ref) => a = b

----------------------------------------------------------------------------
(* Outcomes of a call *)

None == [kind |-> "none", val |-> Undefined]
Return(v) == [kind |-> "return", val |-> v]
Throw(v) == [kind |-> "throw", val |-> v]
\* new AssertionError(...): a fresh object (identity 0), message not modelled
AssertionError == Val("object", 0, <<>>, 0, "AssertionError")
Fail == Throw(AssertionError)
Pass == Return(Undefined)

----------------------------------------------------------------------------
(* The two export surfaces.  A delegate is named by its @std/assert import. *)

\* the aggregate with notEquals bound to the strict negation
AssertInitNotEqualsStrict ==
    [ equals          |-> "assertEquals",
      exists          |-> "assertExists",
      strictEquals    |-> "assertStrictEquals",
      notEquals       |-> "assertNotStrictEquals",
      notStrictEquals |-> "assertNotStrictEquals",
      match           |-> "assertMatch",
      notMatch        |-> "assertNotMatch",
      arrayIncludes   |-> "assertArrayIncludes",
      throws          |-> "assertThrows",
      rejects         |-> "assertRejects",
      ok              |-> "assertTruthy",
      truthy          |-> "assertTruthy",
      almostEquals    |-> "assertAlmostEquals",
      falsey          |-> "assertFalse",
      stringIncludes  |-> "assertStringIncludes",
      instanceOf      |-> "assertInstanceOf",
      isError         |-> "assertIsError",
      notInstanceOf   |-> "assertNotInstanceOf",
      matchObject     |-> "assertObjectMatch",
      fail            |-> "fail",
      unimplemented   |-> "unimplemented",
      unreachable     |-> "unreachable" ]

\* export const assert: Assertion = { ... }  (the initial aggregate object)
AssertInit ==
    [ equals          |-> "assertEquals",
      exists          |-> "assertExists",
      strictEquals    |-> "assertStrictEquals",
      notEquals       |-> "assertNotEquals",
      notStrictEquals |-> "assertNotStrictEquals",
      match           |-> "assertMatch",
      notMatch        |-> "assertNotMatch",
      arrayIncludes   |-> "assertArrayIncludes",
      throws          |-> "assertThrows",
      rejects         |-> "assertRejects",
      ok              |-> "assertTruthy",
      truthy          |-> "assertTruthy",
      almostEquals    |-> "assertAlmostEquals",
      falsey          |-> "assertFalse",
      stringIncludes  |-> "assertStringIncludes",
      instanceOf      |-> "assertInstanceOf",
      isError         |-> "assertIsError",
      notInstanceOf   |-> "assertNotInstanceOf",
      matchObject     |-> "assertObjectMatch",
      fail            |-> "fail",
      unimplemented   |-> "unimplemented",
      unreachable     |-> "unreachable" ]

\* the flat bindings with two aliases exchanged
FlatMisaliased ==
    [ almostEquals    |-> "assertAlmostEquals",
      arrayIncludes   |-> "assertArrayIncludes",
      equals          |-> "assertEquals",
      exists          |-> "assertExists",
      falsey          |-> "assertFalse",
      instanceOf      |-> "assertNotInstanceOf",
      isError         |-> "assertIsError",
      match           |-> "assertMatch",
      notEquals       |-> "assertNotEquals",
      notInstanceOf   |-> "assertInstanceOf",
      notMatch        |-> "assertNotMatch",
      notStrictEquals |-> "assertNotStrictEquals",
      matchObject     |-> "assertObjectMatch",
      rejects         |-> "assertRejects",
      strictEquals    |-> "assertStrictEquals",
      stringIncludes  |-> "assertStringIncludes",
      throws          |-> "assertThrows",
      truthy          |-> "assertTruthy",
      fail            |-> "fail",
      unimplemented   |-> "unimplemented",
      unreachable     |-> "unreachable" ]

\* export { assertAlmostEquals as almostEquals, ... }  (the flat bindings)
Flat ==
    [ almostEquals    |-> "assertAlmostEquals",
      arrayIncludes   |-> "assertArrayIncludes",
      equals          |-> "assertEquals",
      exists          |-> "assertExists",
      falsey          |-> "assertFalse",
      instanceOf      |-> "assertInstanceOf",
      isError         |-> "assertIsError",
      match           |-> "assertMatch",
      notEquals       |-> "assertNotEquals",
      notInstanceOf   |-> "assertNotInstanceOf",
      notMatch        |-> "assertNotMatch",
      notStrictEquals |-> "assertNotStrictEquals",
      matchObject     |-> "assertObjectMatch",
      rejects         |-> "assertRejects",
      strictEquals    |-> "assertStrictEquals",
      stringIncludes  |-> "assertStringIncludes",
      throws          |-> "assertThrows",
      truthy          |-> "assertTruthy",
      fail            |-> "fail",
      unimplemented   |-> "unimplemented",
      unreachable     |-> "unreachable" ]

\* the members the type Assertion declares
Assertion == DOMAIN AssertInit

\* the names imported from "@std/assert" that are callable delegates
Delegates == {AssertInit[n] : n \in Assertion}

\* what a short name resolves to on a surface, in the current state
Resolve(surface, name) ==
    IF surface = "aggregate" THEN assert[name] ELSE Flat[name]

\* the short names a surface offers
Names(surface) ==
    IF surface = "aggregate" THEN DOMAIN assert ELSE DOMAIN Flat

----------------------------------------------------------------------------
(* Language primitives the delegates rely on *)

\* ToBoolean(v): undefined, null, false, +0, -0, NaN and "" convert to false
ToBoolean(v) ==
    CASE v.t = "undefined" -> FALSE
      [] v.t = "null"      -> FALSE
      [] v.t = "boolean"   -> v.n = 1
      [] v.t = "number"    -> v.cls # "NaN" /\ v.n # 0
      [] v.t = "string"    -> Len(v.s) > 0
      [] OTHER             -> TRUE

\* Object.is(a, b): SameValue -- NaN is NaN, +0 is not -0, objects by identity
ObjectIs(a, b) ==
    IF a.t = "object" /\ b.t = "object" THEN a.ref = b.ref ELSE a = b

\* a === b on two numbers: NaN differs from itself, +0 equals -0
NumStrictEq(a, b) == a.cls # "NaN" /\ b.cls # "NaN" /\ a.n = b.n

\* the prototype chain of the classes in use
Super(cls) ==
    CASE cls = "TypeError"      -> "Error"
      [] cls = "AssertionError" -> "Error"
      [] cls = "Error"          -> "Object"
      [] cls = "String"         -> "Object"
      [] OTHER                  -> ""

\* v instanceof cls
InstanceOf(v, cls) ==
    /\ v.t = "object"
    /\ cls \in {v.cls, Super(v.cls), Super(Super(v.cls))}

\* String.prototype.includes: sub occurs in s as a contiguous run
Includes(s, sub) ==
    \E i \in 0..(Len(s) - Len(sub)) :
        \A j \in 1..Len(sub) : s[i + j] = sub[j]

\* equal(a, b) of @std/assert: deep equality
equal(a, b) ==
    IF a.t = "number" /\ b.t = "number"
    THEN (a.cls = "NaN" /\ b.cls = "NaN") \/ NumStrictEq(a, b)
    ELSE IF ObjectIs(a, b) THEN TRUE
    ELSE IF a.t = "object" /\ b.t = "object"
    THEN a.cls = b.cls /\ a.n = b.n
    ELSE FALSE

----------------------------------------------------------------------------
(* The delegates (semantics owned by @std/assert).  Each yields the outcome *)
(* of one call: Pass, Fail (an AssertionError is thrown) or another value.  *)

assertEquals(actual, expected) ==
    IF equal(actual, expected) THEN Pass ELSE Fail

assertNotEquals(actual, expected) ==
    IF ~equal(actual, expected) THEN Pass ELSE Fail

assertStrictEquals(actual, expected) ==
    IF ObjectIs(actual, expected) THEN Pass ELSE Fail

\* the negation as the member's doc comment words it (1, 1 passes; 1, 2 throws)
assertNotStrictEqualsAsDocumented(actual, expected) ==
    IF ObjectIs(actual, expected) THEN Pass ELSE Fail


assertNotStrictEquals(actual, expected) ==
    IF ~ObjectIs(actual, expected) THEN Pass ELSE Fail

\* assert(expr) of @std/assert, imported as assertTruthy
assertTruthy(expr) ==
    IF ~ToBoolean(expr) THEN Fail ELSE Pass

\* passes on the value false only
assertFalseOnlyFalse(expr) ==
    IF expr = Bool(FALSE) THEN Pass ELSE Fail


assertFalse(expr) ==
    IF ToBoolean(expr) THEN Fail ELSE Pass

assertExists(actual) ==
    IF actual.t \in {"undefined", "null"} THEN Fail ELSE Pass

assertInstanceOf(actual, expectedType) ==
    IF InstanceOf(actual, expectedType.cls) THEN Pass ELSE Fail

assertNotInstanceOf(actual, unexpectedType) ==
    IF InstanceOf(actual, unexpectedType.cls) THEN Fail ELSE Pass

assertStringIncludes(actual, expected) ==
    IF ~Includes(actual.s, expected.s) THEN Fail ELSE Pass

\* the message is never looked at
assertIsErrorNoMessage(error, ErrorClass, msgMatches) ==
    IF ~InstanceOf(error, "Error") THEN Fail
    ELSE IF ToBoolean(ErrorClass) /\ ~InstanceOf(error, ErrorClass.cls) THEN Fail
    ELSE Pass


assertIsError(error, ErrorClass, msgMatches) ==
    IF ~InstanceOf(error, "Error") THEN Fail
    ELSE IF ToBoolean(ErrorClass) /\ ~InstanceOf(error, ErrorClass.cls) THEN Fail
    ELSE IF /\ msgMatches.t = "string"
            /\ ToBoolean(msgMatches)
            /\ ~Includes(error.s, msgMatches.s)
         THEN Fail
    ELSE Pass

\* a RegExp made of a literal pattern; test() is then a substring search
RegExp(source) == Val("object", 0, source, 0, "RegExp")

assertMatch(actual, expected) ==
    IF ~Includes(actual.s, expected.s) THEN Fail ELSE Pass

assertNotMatch(actual, expected) ==
    IF Includes(actual.s, expected.s) THEN Fail ELSE Pass

\* numbers are integers here, so the default tolerance (about 1e-7) admits
\* a difference of 0 only
assertAlmostEquals(actual, expected, tolerance) ==
    IF ObjectIs(actual, expected) THEN Pass
    ELSE IF actual.cls = "NaN" \/ expected.cls = "NaN" THEN Fail
    ELSE LET delta == IF expected.n >= actual.n THEN expected.n - actual.n
                      ELSE actual.n - expected.n
             tol   == IF tolerance.t = "undefined" THEN 0 ELSE tolerance.n
         IN  IF delta <= tol THEN Pass ELSE Fail

\* Object literals with several keys: props maps each own key to its value,
\* a number or a nested literal.  Every literal in a call is an object of
\* its own (identity 0), so two of them are never the same reference.
Rec(props) ==
    [t |-> "object", n |-> 0, s |-> <<>>, ref |-> 0, cls |-> "Object", props |-> props]

IsRec(v) == "props" \in DOMAIN v

\* deep equality of @std/assert on object literals: the same own keys with
\* deeply equal values
RECURSIVE equalDeep(_, _)
equalDeep(a, b) ==
    IF IsRec(a) /\ IsRec(b)
    THEN /\ DOMAIN a.props = DOMAIN b.props
         /\ \A k \in DOMAIN a.props : equalDeep(a.props[k], b.props[k])
    ELSE IF IsRec(a) \/ IsRec(b) THEN FALSE
    ELSE equal(a, b)

\* filter(a, b) of assertObjectMatch: the part of a under the keys of b,
\* nested objects filtered in turn by the nested object of b
RECURSIVE filter(_, _)
filter(a, b) ==
    Rec([k \in DOMAIN a.props \cap DOMAIN b.props |->
            IF IsRec(a.props[k]) /\ IsRec(b.props[k])
            THEN filter(a.props[k], b.props[k])
            ELSE a.props[k]])

\* the comparison is made on the objects as they are, nothing filtered out
assertObjectMatchUnfiltered(actual, expected) ==
    IF equalDeep(actual, expected) THEN Pass ELSE Fail

assertObjectMatch(actual, expected) ==
    IF equalDeep(filter(actual, expected), filter(expected, expected))
    THEN Pass ELSE Fail

\* fail(msg), unimplemented(msg), unreachable(): throw unconditionally
fail(msg) == Fail
\* throws only when a message is given
unimplementedGivenMessage(msg) == IF msg = Undefined THEN Pass ELSE Fail

unimplemented(msg) == Fail
unreachable == Fail

----------------------------------------------------------------------------
(* throws and rejects *)

\* The supplied function, described by what one invocation of it does:
\*   "return"  returns a value that is not a promise
\*   "throw"   throws val synchronously
\*   "resolve" returns a promise that is fulfilled
\*   "reject"  returns a promise that is rejected with val
Fn(kind, val) == [kind |-> kind, val |-> val]
NoFn == Fn("none", Undefined)

\* fn(): what the invocation itself produces
Invoke(fn) ==
    IF fn.kind = "throw" THEN Throw(fn.val) ELSE Return(Undefined)

\* does fn() hand back a thenable?
ReturnsPromise(fn) == fn.kind \in {"resolve", "reject"}

\* errorClassOrMsg is a constructor of Error or of one of its subclasses
IsErrorClass(v) ==
    /\ v.t = "function"
    /\ "Error" \in {v.cls, Super(v.cls), Super(Super(v.cls))}

\* The overload resolution shared by assertThrows and assertRejects:
\* (errorClassOrMsg, msgIncludesOrMsg, msg) -> ErrorClass, msgIncludes
Expect(errorClassOrMsg, msgIncludesOrMsg) ==
    IF errorClassOrMsg.t # "string"
    THEN IF errorClassOrMsg.t = "undefined" \/ IsErrorClass(errorClassOrMsg)
         THEN [ErrorClass |-> errorClassOrMsg, msgIncludes |-> msgIncludesOrMsg]
         ELSE [ErrorClass |-> Undefined, msgIncludes |-> Undefined]
    ELSE [ErrorClass |-> Undefined, msgIncludes |-> Undefined]

\* the catch block of both: the expectations checked on what was caught
Caught(error, expect) ==
    IF ToBoolean(expect.ErrorClass)
    THEN IF ~InstanceOf(error, "Error") THEN Fail
         ELSE IF assertIsError(error, expect.ErrorClass, expect.msgIncludes) = Fail
              THEN Fail
              ELSE Return(error)
    ELSE Return(error)

\* the check that fn did throw is missing
assertThrowsNoCheck(fn, errorClassOrMsg, msgIncludesOrMsg, msg) ==
    LET expect == Expect(errorClassOrMsg, msgIncludesOrMsg)
        r      == Invoke(fn)
    IN  [ calls   |-> 1,
          outcome |-> IF r.kind = "throw" THEN Caught(r.val, expect)
                      ELSE Return(Undefined) ]

\* assertThrows(fn, errorClassOrMsg, msgIncludesOrMsg, msg):
\* the outcome and the number of invocations of fn
assertThrows(fn, errorClassOrMsg, msgIncludesOrMsg, msg) ==
    LET expect == Expect(errorClassOrMsg, msgIncludesOrMsg)
        r      == Invoke(fn)
    IN  [ calls   |-> 1,
          outcome |-> IF r.kind = "throw" THEN Caught(r.val, expect) ELSE Fail ]

\* assertRejects, first part: up to the await (or to the end when fn() did
\* not return a promise): fn is invoked, and a thenable is awaited
assertRejectsInvoke(fn) ==
    [ calls   |-> 1,
      awaits  |-> ReturnsPromise(fn),
      outcome |-> IF ReturnsPromise(fn) THEN None ELSE Fail ]

\* the promise is not awaited
SettledOrNot(p) == TRUE

\* the await has completed
Settled(p) == p \in {"fulfilled", "rejected"}

\* a rejection value that is not an Error is refused even without a class
assertRejectsResumeErrorsOnly(p, fn, errorClassOrMsg, msgIncludesOrMsg, msg) ==
    LET expect == Expect(errorClassOrMsg, msgIncludesOrMsg)
    IN  IF p = "rejected"
        THEN IF ~InstanceOf(fn.val, "Error") THEN Fail ELSE Caught(fn.val, expect)
        ELSE Fail

\* assertRejects, second part: after the await on the promise fn returned
assertRejectsResume(p, fn, errorClassOrMsg, msgIncludesOrMsg, msg) ==
    LET expect == Expect(errorClassOrMsg, msgIncludesOrMsg)
    IN  IF p = "rejected" THEN Caught(fn.val, expect) ELSE Fail

----------------------------------------------------------------------------
(* Calls *)

\* the arguments of a call: the function (throws, rejects) and up to three
\* positional values; an optional trailing msg that only words the failure
\* is left out
Arg(fn, a, b, c) == [fn |-> fn, a |-> a, b |-> b, c |-> c]

Messages == Strings \ {<<>>}
Thrown == Errors \cup {Num(10)}
Fns == {Fn("return", Undefined), Fn("resolve", Undefined)}
         \cup {Fn("throw", e) : e \in Thrown}
         \cup {Fn("reject", e) : e \in Thrown}
Classes == {Class(c) : c \in {"Error", "TypeError", "String", "Object"}}
OptMsg == {Undefined, Str(<<"a">>)}

\* the parameter list each member of type Assertion declares
Params(name) ==
    CASE name \in {"equals", "strictEquals", "notEquals", "notStrictEquals",
                   "match", "notMatch", "arrayIncludes", "stringIncludes",
                   "matchObject"}        -> <<"actual", "expected", "msg">>
      [] name = "exists"                 -> <<"actual", "msg">>
      [] name \in {"truthy", "ok", "falsey"} -> <<"expr", "msg">>
      [] name \in {"throws", "rejects"}  ->
            <<"fn", "errorClassOrMsg", "msgIncludesOrMsg", "msg">>
      [] name = "almostEquals"           -> <<"actual", "expected", "delta", "msg">>
      [] name = "instanceOf"             -> <<"actual", "expectedType", "msg">>
      [] name = "notInstanceOf"          -> <<"actual", "unexpectedType", "msg">>
      [] name = "isError"                -> <<"error", "ErrorClass", "msgIncludes", "msg">>
      [] name \in {"fail", "unimplemented"} -> <<"msg">>
      [] name = "unreachable"            -> <<>>
      [] OTHER                           -> <<>>

\* the member declares the optional trailing msg
AcceptsMsg(name) ==
    Len(Params(name)) > 0 /\ Params(name)[Len(Params(name))] = "msg"

\* the members whose declared return type is an assertion signature
Narrowing == {"exists", "truthy", "ok", "falsey", "instanceOf", "notInstanceOf", "isError"}

\* what that signature asserts of the first argument once the call returns:
\*   exists         asserts actual is NonNullable<T>
\*   truthy, ok     asserts expr
\*   falsey         asserts expr
\*   instanceOf     asserts actual is GetConstructorType<T>
\*   notInstanceOf  asserts actual is Exclude<A, T>
\*   isError        asserts error is E    (E = Error without an ErrorClass)
Asserts(name, x) ==
    CASE name = "exists"        -> x.a.t \notin {"undefined", "null"}
      [] name \in {"truthy", "ok", "falsey"} -> ToBoolean(x.a)
      [] name = "instanceOf"    -> InstanceOf(x.a, x.b.cls)
      [] name = "notInstanceOf" -> ~InstanceOf(x.a, x.b.cls)
      [] name = "isError"       ->
            InstanceOf(x.a, IF x.b.t = "function" THEN x.b.cls ELSE "Error")
      [] OTHER                  -> TRUE

\* object literals of up to two levels over the keys a and b
Keys == {"a", "b"}
Maps(K, V) == UNION {[S -> V] : S \in SUBSET K}
Nested == {Rec(f) : f \in Maps(Keys, {Num(1)})}
Literals == {Rec(f) : f \in Maps(Keys, {Num(1), Num(2)} \cup Nested)}

\* the argument lists the declared signature of a member admits
ArgsOf(name) ==
    CASE name \in {"equals", "notEquals", "strictEquals", "notStrictEquals"} ->
            {Arg(NoFn, a, b, Undefined) : <<a, b>> \in
                {v \in Values \X Values : SameHeap(v[1], v[2])}}
      [] name \in {"truthy", "ok", "falsey", "exists"} ->
            {Arg(NoFn, a, Undefined, Undefined) : a \in Values \cup Errors}
      [] name \in {"match", "notMatch"} ->
            {Arg(NoFn, Str(a), RegExp(b), Undefined) : <<a, b>> \in Strings \X Strings}
      [] name = "stringIncludes" ->
            {Arg(NoFn, Str(a), Str(b), Undefined) : <<a, b>> \in Strings \X Strings}
      [] name \in {"instanceOf", "notInstanceOf"} ->
            {Arg(NoFn, a, b, Undefined) : <<a, b>> \in (Values \cup Errors) \X Classes}
      [] name = "isError" ->
            {Arg(NoFn, x[1], x[2], x[3]) : x \in
                (Errors \cup {Null, Num(1), Obj(1, 1)})
                  \X {Undefined, Class("Error"), Class("TypeError")}
                  \X ({Undefined} \cup {Str(m) : m \in Strings})}
      [] name \in {"throws", "rejects"} ->
            {Arg(x[1], x[2], x[3], x[4]) : x \in
                Fns
                  \X ({Undefined} \cup Classes \cup {Str(m) : m \in Messages})
                  \X ({Undefined} \cup {Str(m) : m \in Messages})
                  \X OptMsg}
      [] name = "almostEquals" ->
            {Arg(NoFn, x[1], x[2], x[3]) : x \in
                Numbers \X Numbers \X ({Undefined} \cup {Num(n) : n \in 0..MaxNum})}
      [] name = "matchObject" ->
            {Arg(NoFn, x[1], x[2], Undefined) : x \in Literals \X Literals}
      [] name \in {"fail", "unimplemented", "unreachable"} ->
            {Arg(NoFn, a, Undefined, Undefined) : a \in OptMsg}
      [] OTHER -> {}

\* the delegate d applied to the arguments x; p is how the promise that
\* fn returned has settled (assertRejects only)
Run(d, x, p) ==
    CASE d = "assertEquals"          -> assertEquals(x.a, x.b)
      [] d = "assertNotEquals"       -> assertNotEquals(x.a, x.b)
      [] d = "assertStrictEquals"    -> assertStrictEquals(x.a, x.b)
      [] d = "assertNotStrictEquals" -> assertNotStrictEquals(x.a, x.b)
      [] d = "assertTruthy"          -> assertTruthy(x.a)
      [] d = "assertFalse"           -> assertFalse(x.a)
      [] d = "assertExists"          -> assertExists(x.a)
      [] d = "assertMatch"           -> assertMatch(x.a, x.b)
      [] d = "assertNotMatch"        -> assertNotMatch(x.a, x.b)
      [] d = "assertStringIncludes"  -> assertStringIncludes(x.a, x.b)
      [] d = "assertInstanceOf"      -> assertInstanceOf(x.a, x.b)
      [] d = "assertNotInstanceOf"   -> assertNotInstanceOf(x.a, x.b)
      [] d = "assertIsError"         -> assertIsError(x.a, x.b, x.c)
      [] d = "assertAlmostEquals"    -> assertAlmostEquals(x.a, x.b, x.c)
      [] d = "assertObjectMatch"     -> assertObjectMatch(x.a, x.b)
      [] d = "assertThrows"          -> assertThrows(x.fn, x.a, x.b, x.c).outcome
      [] d = "assertRejects"         ->
            IF assertRejectsInvoke(x.fn).awaits
            THEN assertRejectsResume(p, x.fn, x.a, x.b, x.c)
            ELSE assertRejectsInvoke(x.fn).outcome
      [] d = "fail"                  -> fail(x.a)
      [] d = "unimplemented"         -> unimplemented(x.a)
      [] d = "unreachable"           -> unreachable
      [] OTHER                       -> None

\* how often the delegate d invokes the function it is given
Invocations(d, x) ==
    CASE d = "assertThrows"  -> assertThrows(x.fn, x.a, x.b, x.c).calls
      [] d = "assertRejects" -> assertRejectsInvoke(x.fn).calls
      [] OTHER               -> 0

\* delegates that take the same argument list can stand in for one another
Shape(d) ==
    CASE d \in {"assertEquals", "assertNotEquals", "assertStrictEquals",
                "assertNotStrictEquals"}                      -> "binary"
      [] d \in {"assertTruthy", "assertFalse", "assertExists"} -> "unary"
      [] d \in {"assertMatch", "assertNotMatch"}               -> "pattern"
      [] d \in {"assertInstanceOf", "assertNotInstanceOf"}     -> "type"
      [] d \in {"fail", "unimplemented", "unreachable"}        -> "never"
      [] OTHER                                                 -> d

\* members whose argument values this model covers
Callable == Assertion \ {"arrayIncludes"}

Surfaces == {"aggregate", "flat"}
NoCall == [surface |-> "", name |-> "", args |-> Arg(NoFn, Undefined, Undefined, Undefined)]

----------------------------------------------------------------------------
(* The state machine *)

Init ==
    /\ assert = AssertInit
    /\ call = NoCall
    /\ calls = 0
    /\ promise = "none"
    /\ pc = "idle"
    /\ outcome = None

\* A synchronous assertion is called through a surface and runs to its end.
Call(surface, name, x) ==
    /\ pc = "idle"
    /\ name \in Names(surface) \cap Callable
    /\ Resolve(surface, name) # "assertRejects"
    /\ call' = [surface |-> surface, name |-> name, args |-> x]
    /\ calls' = Invocations(Resolve(surface, name), x)
    /\ promise' = "none"
    /\ outcome' = Run(Resolve(surface, name), x, "none")
    /\ pc' = "done"
    /\ UNCHANGED assert

\* rejects is called: it invokes fn and, given a promise, suspends on it;
\* the promise may have settled already or still be pending.
RejectsStart(surface, name, x, p) ==
    /\ pc = "idle"
    /\ name \in Names(surface) \cap Callable
    /\ Resolve(surface, name) = "assertRejects"
    /\ LET r == assertRejectsInvoke(x.fn)
       IN  /\ calls' = r.calls
           /\ outcome' = r.outcome
           /\ IF r.awaits
              THEN /\ pc' = "await"
                   /\ promise' = p
                   /\ p \in {"pending", IF x.fn.kind = "reject" THEN "rejected" ELSE "fulfilled"}
              ELSE /\ pc' = "done"
                   /\ promise' = "none"
                   /\ p = "pending"
    /\ call' = [surface |-> surface, name |-> name, args |-> x]
    /\ UNCHANGED assert

\* The environment settles the pending promise as fn determined.
Settle ==
    /\ promise = "pending"
    /\ promise' = IF call.args.fn.kind = "reject" THEN "rejected" ELSE "fulfilled"
    /\ UNCHANGED <<assert, call, calls, pc, outcome>>

\* The await completes and rejects runs to its end.
RejectsResume ==
    /\ pc = "await"
    /\ Settled(promise)
    /\ outcome' = assertRejectsResume(promise, call.args.fn, call.args.a,
                                      call.args.b, call.args.c)
    /\ pc' = "done"
    /\ UNCHANGED <<assert, call, calls, promise>>

\* The finished call hands its outcome to the caller, which goes on.
Finish ==
    /\ pc = "done"
    /\ pc' = "idle"
    /\ call' = NoCall
    /\ calls' = 0
    /\ promise' = "none"
    /\ outcome' = None
    /\ UNCHANGED assert

\* Calling code assigns a member of the exported object (the object is not
\* frozen and the members of type Assertion are not readonly).
Reassign(name, d) ==
    /\ pc = "idle"
    /\ name \in DOMAIN assert
    /\ d \in Delegates
    /\ Shape(d) = Shape(AssertInit[name])
    /\ assert' = [assert EXCEPT ![name] = d]
    /\ Cardinality({n \in DOMAIN assert : assert'[n] # AssertInit[n]}) <= MaxAssign
    /\ UNCHANGED <<call, calls, promise, pc, outcome>>

\* the caller is between two calls
Idle == pc = "idle"

Next ==
    \/ Idle /\ \E s \in Surfaces, n \in Assertion : \E x \in ArgsOf(n) : Call(s, n, x)
    \/ Idle /\ \E s \in Surfaces, n \in Assertion : \E x \in ArgsOf(n) :
          \E p \in {"pending", "rejected", "fulfilled"} : RejectsStart(s, n, x, p)
    \/ Settle
    \/ RejectsResume
    \/ Finish

Spec == Init /\ [][Next]_vars

\* the same, with calling code free to assign members of the aggregate
NextOpen ==
    \/ Next
    \/ Idle /\ \E n \in Assertion, d \in Delegates : Reassign(n, d)

SpecOpen == Init /\ [][NextOpen]_vars

----------------------------------------------------------------------------
(* Properties *)

\* the call that has just finished
Done(name) == pc = "done" /\ call.name = name
Other(surface) == IF surface = "aggregate" THEN "flat" ELSE "aggregate"
Both == DOMAIN assert \cap DOMAIN Flat

\* C1: every short name offered by both the aggregate and the flat exports
\* is bound to the same delegate on both, and a finished call has the very
\* outcome the other surface's binding gives on the same arguments.
C1_SameDelegate ==
    /\ \A n \in Both : assert[n] = Flat[n]
    /\ (pc = "done" /\ call.name \in Both) =>
          outcome = Run(Resolve(Other(call.surface), call.name), call.args, promise)

C1_Witness ==
    /\ Done("notInstanceOf")
    /\ call.surface = "flat"
    /\ call.args.a \in Errors /\ call.args.b = Class("String")
    /\ outcome = Pass

\* C2: every member of the aggregate is also a flat export of that name.
C2_FlatParallel == \A n \in DOMAIN assert : n \in DOMAIN Flat

\* C3: every declared short name resolves, in every state, to the delegate
\* it was bound to at module initialization.
C3_StaticMapping ==
    /\ DOMAIN assert = Assertion
    /\ \A n \in Assertion : assert[n] = AssertInit[n]

NoExpectation(x) == x.a = Undefined /\ x.b = Undefined /\ x.c = Undefined

\* C4: throws(fn) with no further argument returns what fn threw when fn
\* throws, and signals an assertion failure when fn returns normally.
C4_ThrowsBare ==
    (Done("throws") /\ NoExpectation(call.args)) =>
        /\ call.args.fn.kind = "throw" => outcome = Return(call.args.fn.val)
        /\ call.args.fn.kind # "throw" => outcome = Fail

C4_Witness ==
    /\ Done("throws") /\ NoExpectation(call.args)
    /\ call.args.fn.kind = "return"
    /\ outcome = Fail

\* C5: rejects(fn) with no expected type, fn returning a promise: resolves
\* with the rejection value (an Error or not) when the promise is rejected,
\* and signals an assertion failure when the promise is fulfilled.
C5_RejectsBare ==
    (Done("rejects") /\ call.args.a.t # "function" /\ ReturnsPromise(call.args.fn)) =>
        /\ call.args.fn.kind = "reject" => outcome = Return(call.args.fn.val)
        /\ call.args.fn.kind = "resolve" => outcome = Fail

C5_Witness ==
    /\ Done("rejects") /\ NoExpectation(call.args)
    /\ call.args.fn = Fn("reject", Num(10))
    /\ promise = "rejected"
    /\ outcome = Return(Num(10))

\* C6: throughout a call of throws or rejects fn has been invoked exactly
\* once, and rejects has an outcome only once the promise that this one
\* invocation returned has settled.
C6_OnceThenSettled ==
    /\ (pc # "idle" /\ call.name \in {"throws", "rejects"}) => calls = 1
    /\ (call.name = "rejects" /\ promise # "none" /\ outcome # None) =>
          promise \in {"fulfilled", "rejected"}

C6_Witness ==
    /\ Done("rejects")
    /\ IsErrorClass(call.args.a) /\ call.args.b.t = "string"
    /\ promise = "rejected"
    /\ outcome = Fail
    /\ calls = 1

\* the substring of the message that the caller of throws/rejects requires,
\* reading a lone string second argument as such a substring
Required(x) ==
    IF x.a.t = "string" THEN x.a
    ELSE IF x.a.t = "function" /\ x.b.t = "string" THEN x.b
    ELSE Undefined

\* what fn raised or rejected with
Raised(fn) == fn.kind \in {"throw", "reject"}

\* C7 (as claimed): a required substring, after an error type or alone as
\* the second argument, makes the call fail when the message lacks it.
C7_SubstringAnyPosition ==
    ( /\ pc = "done" /\ call.name \in {"throws", "rejects"}
      /\ Raised(call.args.fn)
      /\ Required(call.args) # Undefined
      /\ ~Includes(call.args.fn.val.s, Required(call.args).s) )
    => outcome = Fail

\* C7 (amended): a substring that follows an expected error type makes the
\* call fail when the message lacks it; a string passed alone as the second
\* argument is the failure message and requires nothing of the error.
C7_SubstringAfterType ==
    (pc = "done" /\ call.name \in {"throws", "rejects"} /\ Raised(call.args.fn)) =>
        /\ ( /\ IsErrorClass(call.args.a)
             /\ call.args.b.t = "string"
             /\ ~Includes(call.args.fn.val.s, call.args.b.s) ) => outcome = Fail
        /\ ( /\ call.args.a.t = "string"
             /\ (call.name = "throws") = (call.args.fn.kind = "throw") )
           => outcome = Return(call.args.fn.val)

C7_Witness ==
    /\ Done("throws")
    /\ call.args.a = Class("Error") /\ call.args.b = Str(<<"b">>)
    /\ call.args.fn = Fn("throw", Err(1, "TypeError", <<"a">>))
    /\ outcome = Fail

Same(a, b) ==
    \/ a.t = "object" /\ b.t = "object" /\ a.ref = b.ref
    \/ a.t # "object" /\ b.t # "object" /\ a = b

Falsy == {Undefined, Null, Bool(FALSE), Num(0), NegZero, NaN, Str(<<>>)}

LitA(x) == Rec([a |-> x])
LitAB(x, y) == Rec([a |-> x, b |-> y])

\* every key of e is a key of a and carries a deeply equal value there
PresentAndEqual(e, a) ==
    \A k \in DOMAIN e.props :
        k \in DOMAIN a.props /\ equalDeep(a.props[k], e.props[k])

\* the same, a value that is an object on both sides being matched in turn
RECURSIVE PresentAndMatching(_, _)
PresentAndMatching(e, a) ==
    \A k \in DOMAIN e.props :
        /\ k \in DOMAIN a.props
        /\ IF IsRec(e.props[k]) /\ IsRec(a.props[k])
           THEN PresentAndMatching(e.props[k], a.props[k])
           ELSE equalDeep(a.props[k], e.props[k])

Unconditional == {"fail", "unimplemented", "unreachable"}

\* a finished call of an unconditional operation has thrown an
\* AssertionError, whatever it was given
AlwaysFails ==
    (pc = "done" /\ call.name \in Unconditional) =>
        /\ outcome.kind = "throw"
        /\ outcome.val.cls = "AssertionError"

\* C12 (as claimed): fail, unimplemented and unreachable each accept an
\* optional message and, on either surface and for every argument list,
\* signal an assertion failure and never return normally.
C12_MessageAndAlwaysFails ==
    /\ \A n \in Unconditional : AcceptsMsg(n)
    /\ AlwaysFails

\* C12 (amended): fail and unimplemented accept an optional message and
\* unreachable is declared without parameters; each of the three, on either
\* surface and whatever arguments it is given, signals an assertion failure
\* and never returns normally.
C12_AlwaysFails ==
    /\ AcceptsMsg("fail") /\ AcceptsMsg("unimplemented")
    /\ Params("unreachable") = <<>>
    /\ AlwaysFails

C12_Witness ==
    /\ Done("unimplemented")
    /\ call.surface = "flat"
    /\ call.args.a = Undefined
    /\ outcome = Fail

\* C13: whenever a narrowing operation returns normally on a value, the
\* predicate its declared signature asserts of that value holds; so for
\* falsey too.
C13_NarrowingSound ==
    (pc = "done" /\ call.name \in Narrowing /\ outcome.kind = "return") =>
        Asserts(call.name, call.args)

====
